---- MODULE Spec2Model ----
(***************************************************************************)
(* Static-analysis core of DevToolBox: the metadata extractor              *)
(* (utils/ast_parser.py, PythonASTParser) and the complexity analyzer      *)
(* (utils/complexity_analyzer.py, ComplexityAnalyzer).                     *)
(*                                                                         *)
(* A syntax tree is a sequence of node records in source (pre-) order:     *)
(* node 1 is the root, and every other node names its parent, an earlier   *)
(* node.  The children of a node, listed by increasing index, are what     *)
(* ast.iter_child_nodes yields: the statement fields of the grammar (body, *)
(* handlers, orelse, finalbody) are declared and written in the same       *)
(* order; the expression fields that are written before the body but     *)
(* declared after it (decorators, return annotation) hold no statement,    *)
(* and every traversal of the code sums or maximises over expressions, so  *)
(* their place among the children changes no result.                       *)
(* A node carries the kind the code's isinstance tests look at;            *)
(* nodes that no test of the analysed code accepts (Pass, Return, Name,    *)
(* Call, ...) are the kinds OtherStmt and OtherExpr, and such a node may   *)
(* be left out when it has no descendant of interest: every traversal of   *)
(* the code gives it the default treatment.                                *)
(***************************************************************************)
EXTENDS Integers, Sequences, FiniteSets, TLC

VARIABLES
    code,       \* the argument of parse_code: what ast.parse makes of the text
    result,     \* the outcome of parse_code: a returned dict or a raised exception
    node,       \* the argument of calculate_complexity: a node of code.tree
    metrics,    \* the dict calculate_complexity returned
    args,       \* the argument of _parse_parameters: an ast.arguments
    parameters, \* the list _parse_parameters returned
    expression, \* the argument of a rendering method: an ast.expr, or None
    renderer,   \* the rendering method called
    rendered,   \* the string (or None) the rendering method returned
    has_unparse,\* whether ast.unparse succeeds in this run (the try at line 169)
    pc,         \* "ready" before the call, "done" after it
    calls,      \* the invocations of parse_code in flight, one per thread
    heap,       \* the objects the invocations write to, by cell
    func,       \* the argument of _generate_function_summary: a function dict
    summary     \* the str _generate_function_summary returned

vars ==
    <<code, result, node, metrics, args, parameters, expression, renderer,
      rendered, has_unparse, pc, calls, heap, func, summary>>

(***************************************************************************)
(* Bounds of the model.                                                    *)
(***************************************************************************)
\* nodes below the root in a tree whose nodes range over every kind
MaxNodes == 2
\* nodes below the root in a tree of definitions, imports and conditionals
MaxDeepNodes == 3
\* nodes below the root in a tree of conditionals and leaves
MaxIfNodes == 5
\* most operands of one and/or expression
MaxOperands == 3
\* most attribute accesses and subscripts stacked in one expression
MaxExprDepth == 2
\* most invocations of parse_code in flight at once
MaxCalls == 2
\* most positional-or-keyword parameters of one signature
MaxParams == 4
\* most positional-only parameters of one signature
MaxPosOnly == 1
\* most keyword-only parameters of one signature
MaxKwOnly == 2
\* last line a syntax error is reported at
MaxLine == 2
\* largest cyclomatic_complexity of a summarised function
MaxCyclomatic == 11
\* nodes below the root in a tree of functions, conditionals and leaves
MaxScenarioNodes == 4

(***************************************************************************)
(* Optional values: None is the empty sequence, a value v is <<v>>.        *)
(***************************************************************************)
None == <<>>
Some(v) == <<v>>

RECURSIVE SumSeq(_)
SumSeq(s) == IF s = <<>> THEN 0 ELSE Head(s) + SumSeq(Tail(s))

RECURSIVE MaxSeq(_, _)
MaxSeq(s, least) ==
    IF s = <<>> THEN least
    ELSE MaxSeq(Tail(s), IF Head(s) > least THEN Head(s) ELSE least)

RECURSIVE Flatten(_)
Flatten(ss) == IF ss = <<>> THEN <<>> ELSE Head(ss) \o Flatten(Tail(ss))

(***************************************************************************)
(* Node kinds (the classes of module ast the code tests for).              *)
(***************************************************************************)
CompoundStmtKinds ==
    {"FunctionDef", "AsyncFunctionDef", "ClassDef", "If", "While", "For",
     "AsyncFor", "With", "AsyncWith", "Try"}
\* StrExpr is an expression statement whose value is a string constant
SimpleStmtKinds ==
    {"Import", "ImportFrom", "Assert", "Assign", "StrExpr", "OtherStmt"}
StmtKinds == CompoundStmtKinds \cup SimpleStmtKinds
ExprKinds ==
    {"BoolOp", "ListComp", "DictComp", "SetComp", "GeneratorExp", "Lambda",
     "OtherExpr"}
AllKinds == StmtKinds \cup ExprKinds \cup {"ExceptHandler"}

\* The grammar (Python's abstract grammar): which kind may be a child of which.
CanParent(pk, ck) ==
    CASE ck = "ExceptHandler" -> pk = "Try"
      [] ck \in StmtKinds -> pk \in CompoundStmtKinds \cup {"Module", "ExceptHandler"}
      [] ck \in ExprKinds -> pk \notin {"Module", "Import", "ImportFrom", "StrExpr"}
      [] OTHER -> FALSE

\* Expressions: a name, a constant (its Python type and the text str() gives
\* for it), an attribute access, a subscript.
Name(id) == [kind |-> "Name", id |-> id, value |-> None, attr |-> ""]
Constant(type, text) ==
    [kind |-> "Constant", id |-> "", value |-> Some([type |-> type, text |-> text]),
     attr |-> ""]
Attribute(owner, attr) ==
    [kind |-> "Attribute", id |-> "", value |-> Some(owner), attr |-> attr]
\* owner[int]
Subscript(owner) ==
    [kind |-> "Subscript", id |-> "", value |-> Some(owner), attr |-> ""]
\* a tuple display, as the target of an unpacking assignment
Tuple == [kind |-> "Tuple", id |-> "", value |-> None, attr |-> ""]

\* ast.arguments of a definition without parameters
NoArguments ==
    [posonlyargs |-> <<>>, args |-> <<>>, vararg |-> None, kwonlyargs |-> <<>>,
     kw_defaults |-> <<>>, kwarg |-> None, defaults |-> <<>>]

\* A node: nvalues is len(values) of a BoolOp; args, returns and
\* decorator_list are those of a definition, bases those of a class,
\* targets those of an assignment (x = ... unless set otherwise).
Node(kind, parent, nvalues) ==
    [kind |-> kind, parent |-> parent, nvalues |-> nvalues,
     args |-> NoArguments, returns |-> None, decorator_list |-> <<>>,
     bases |-> <<>>,
     targets |-> IF kind = "Assign" THEN <<Name("x")>> ELSE <<>>]

\* node.name (alias.name of an import): nodes are named after their place
NameOf(n) == "n" \o ToString(n)

(***************************************************************************)
(* The source text.  ast.parse either yields the tree or raises a          *)
(* SyntaxError; a text is modelled by what ast.parse makes of it.  The     *)
(* text is written one node at a time, in source order, before it is       *)
(* analysed.                                                               *)
(***************************************************************************)
NoError == [msg |-> "", lineno |-> None, offset |-> None, text |-> None]

ValidCode(t) == [valid |-> TRUE, tree |-> t, error |-> NoError]

RECURSIVE AncestorsOrSelf(_, _)
AncestorsOrSelf(t, n) ==
    IF n = 0 THEN {} ELSE {n} \cup AncestorsOrSelf(t, t[n].parent)

KindsIn(t) == {t[i].kind : i \in 2 .. Len(t)}

\* Kinds of the deeper trees: definitions, an import, a conditional, a leaf.
DeepKinds ==
    {"FunctionDef", "AsyncFunctionDef", "ClassDef", "If", "Import", "OtherStmt"}
IfKinds == {"If", "OtherStmt"}
\* a try statement, its handler clauses, a conditional, a leaf
TryKinds == {"Try", "ExceptHandler", "If", "OtherStmt"}

\* the kinds parse_code itself tells apart, a conditional and a leaf
ParserTrees ==
    [kinds |-> DeepKinds \cup {"ImportFrom", "Assign", "StrExpr"}, max |-> MaxNodes]
\* without the kinds no test of the analyzer tells from OtherStmt
AnalysedTrees ==
    [kinds |-> AllKinds \ {"Import", "ImportFrom", "Assign", "StrExpr"},
     max |-> MaxNodes]
DeepTrees == [kinds |-> DeepKinds, max |-> MaxDeepNodes]
\* a module of functions whose bodies are conditionals and leaves
ScenarioTrees ==
    [kinds |-> {"FunctionDef", "If", "OtherStmt"}, max |-> MaxScenarioNodes]
IfTrees == [kinds |-> IfKinds, max |-> MaxIfNodes]
TryTrees == [kinds |-> TryKinds, max |-> MaxDeepNodes]

\* In source order the next node hangs below the last node or one of its
\* ancestors.
AppendNode(families) ==
    /\ pc = "ready"
    /\ code.valid
    /\ \E k \in AllKinds, p \in AncestorsOrSelf(code.tree, Len(code.tree)),
          v \in 0 .. MaxOperands :
          /\ \E f \in families :
                /\ KindsIn(code.tree) \cup {k} \subseteq f.kinds
                /\ Len(code.tree) - 1 < f.max
          /\ IF k = "BoolOp" THEN v >= 2 ELSE v = 0
          /\ CanParent(code.tree[p].kind, k)
          /\ code' = ValidCode(Append(code.tree, Node(k, p, v)))
    /\ UNCHANGED <<func, summary, calls, heap, result, node, metrics, args, parameters, expression,
                   renderer, rendered, has_unparse, pc>>

(***************************************************************************)
(* ast.iter_child_nodes and ast.walk.                                      *)
(***************************************************************************)
iter_child_nodes(t, n) ==
    SelectSeq([i \in 1 .. Len(t) |-> i], LAMBDA i : t[i].parent = n)

\* ast.walk: todo = deque([node]); popleft, extend(iter_child_nodes), yield
RECURSIVE WalkFrom(_, _, _)
WalkFrom(t, todo, yielded) ==
    IF todo = <<>> THEN yielded
    ELSE WalkFrom(t, Tail(todo) \o iter_child_nodes(t, Head(todo)),
                  Append(yielded, Head(todo)))

walk(t, n) == WalkFrom(t, <<n>>, <<>>)

isinstance(t, n, kinds) == t[n].kind \in kinds

(***************************************************************************)
(* ComplexityAnalyzer                                                      *)
(***************************************************************************)
\* complexity = 1  # Base complexity
BaseComplexity == 1

\* the chain without ast.If in its first test
CyclomaticIncrementNoIf(t, child) ==
    CASE isinstance(t, child, {"While", "For", "AsyncFor"}) -> 1
      [] isinstance(t, child, {"ExceptHandler"}) -> 1
      [] isinstance(t, child, {"With", "AsyncWith"}) -> 1
      [] isinstance(t, child, {"Assert"}) -> 1
      [] isinstance(t, child, {"BoolOp"}) -> t[child].nvalues - 1
      [] isinstance(t, child, {"ListComp", "DictComp", "SetComp", "GeneratorExp"}) -> 1
      [] OTHER -> 0

\* the chain with one point for an and/or expression of any length
CyclomaticIncrementBoolOpOnce(t, child) ==
    CASE isinstance(t, child, {"If", "While", "For", "AsyncFor"}) -> 1
      [] isinstance(t, child, {"ExceptHandler"}) -> 1
      [] isinstance(t, child, {"With", "AsyncWith"}) -> 1
      [] isinstance(t, child, {"Assert"}) -> 1
      [] isinstance(t, child, {"BoolOp"}) -> 1
      [] isinstance(t, child, {"ListComp", "DictComp", "SetComp", "GeneratorExp"}) -> 1
      [] OTHER -> 0

\* the if/elif chain of the loop body of _cyclomatic_complexity
CyclomaticIncrement(t, child) ==
    CASE isinstance(t, child, {"If", "While", "For", "AsyncFor"}) -> 1
      [] isinstance(t, child, {"ExceptHandler"}) -> 1
      [] isinstance(t, child, {"With", "AsyncWith"}) -> 1
      [] isinstance(t, child, {"Assert"}) -> 1
      [] isinstance(t, child, {"BoolOp"}) -> t[child].nvalues - 1
      [] isinstance(t, child, {"ListComp"}) -> 1
      [] isinstance(t, child, {"DictComp"}) -> 1
      [] isinstance(t, child, {"SetComp"}) -> 1
      [] isinstance(t, child, {"GeneratorExp"}) -> 1
      [] OTHER -> 0

\* the sum started at 0
CyclomaticNoBase(t, n) ==
    LET w == walk(t, n)
    IN  SumSeq([i \in 1 .. Len(w) |-> CyclomaticIncrement(t, w[i])])

_cyclomatic_complexity(t, n) ==
    LET w == walk(t, n)
    IN  BaseComplexity + SumSeq([i \in 1 .. Len(w) |-> CyclomaticIncrement(t, w[i])])

\* the increments without the nesting level
CognitiveIncrementFlat(t, child, nesting_level) ==
    CASE isinstance(t, child, {"If", "While", "For", "AsyncFor"}) -> 1
      [] isinstance(t, child, {"ExceptHandler"}) -> 1
      [] isinstance(t, child, {"With", "AsyncWith"}) -> 1
      [] isinstance(t, child, {"BoolOp"}) -> t[child].nvalues - 1
      [] isinstance(t, child, {"ListComp", "DictComp", "SetComp", "GeneratorExp"}) -> 1
      [] isinstance(t, child, {"Lambda"}) -> 1
      [] OTHER -> 0

\* the increments without the branch for ast.With and ast.AsyncWith
CognitiveIncrementNoWith(t, child, nesting_level) ==
    CASE isinstance(t, child, {"If", "While", "For", "AsyncFor"}) -> 1 + nesting_level
      [] isinstance(t, child, {"ExceptHandler"}) -> 1 + nesting_level
      [] isinstance(t, child, {"BoolOp"}) -> t[child].nvalues - 1
      [] isinstance(t, child, {"ListComp", "DictComp", "SetComp", "GeneratorExp"}) -> 1
      [] isinstance(t, child, {"Lambda"}) -> 1
      [] OTHER -> 0

\* increment of one child in _cognitive_complexity_recursive
CognitiveIncrement(t, child, nesting_level) ==
    CASE isinstance(t, child, {"If", "While", "For", "AsyncFor"}) -> 1 + nesting_level
      [] isinstance(t, child, {"ExceptHandler"}) -> 1 + nesting_level
      [] isinstance(t, child, {"With", "AsyncWith"}) -> 1 + nesting_level
      [] isinstance(t, child, {"BoolOp"}) -> t[child].nvalues - 1
      [] isinstance(t, child, {"ListComp", "DictComp", "SetComp", "GeneratorExp"}) -> 1
      [] isinstance(t, child, {"Lambda"}) -> 1
      [] OTHER -> 0

\* new_nesting left at nesting_level for every child
CognitiveNestingFlat(t, child, nesting_level) == nesting_level

\* new_nesting of one child in _cognitive_complexity_recursive
CognitiveNesting(t, child, nesting_level) ==
    CASE isinstance(t, child, {"If", "While", "For", "AsyncFor"}) -> nesting_level + 1
      [] isinstance(t, child, {"ExceptHandler"}) -> nesting_level + 1
      [] isinstance(t, child, {"With", "AsyncWith"}) -> nesting_level + 1
      [] OTHER -> nesting_level

RECURSIVE _cognitive_complexity_recursive(_, _, _)
_cognitive_complexity_recursive(t, n, nesting_level) ==
    LET c == iter_child_nodes(t, n)
    IN  SumSeq([i \in 1 .. Len(c) |->
            CognitiveIncrement(t, c[i], nesting_level)
            + _cognitive_complexity_recursive(
                  t, c[i], CognitiveNesting(t, c[i], nesting_level))])

_cognitive_complexity(t, n) == _cognitive_complexity_recursive(t, n, 0)

\* new_depth with ast.ExceptHandler in the tuple of the test
NestingNewDepthWithHandlers(t, child, current_depth) ==
    IF isinstance(t, child,
           {"If", "While", "For", "AsyncFor", "With", "AsyncWith", "Try",
            "ExceptHandler", "FunctionDef", "AsyncFunctionDef", "ClassDef"})
    THEN current_depth + 1
    ELSE current_depth

\* new_depth of one child in _nesting_depth_recursive
NestingNewDepth(t, child, current_depth) ==
    IF isinstance(t, child,
           {"If", "While", "For", "AsyncFor", "With", "AsyncWith", "Try",
            "FunctionDef", "AsyncFunctionDef", "ClassDef"})
    THEN current_depth + 1
    ELSE current_depth

RECURSIVE _nesting_depth_recursive(_, _, _)
_nesting_depth_recursive(t, n, current_depth) ==
    LET c == iter_child_nodes(t, n)
    IN  MaxSeq([i \in 1 .. Len(c) |->
                   _nesting_depth_recursive(
                       t, c[i], NestingNewDepth(t, c[i], current_depth))],
               current_depth)

\* the recursion started at depth 1, the analysed definition counted
MaxNestingDepthFromOne(t, n) == _nesting_depth_recursive(t, n, 1)

_max_nesting_depth(t, n) == _nesting_depth_recursive(t, n, 0)

\* the count without the elif branch for ast.ExceptHandler
CountBranchesNoHandlers(t, n) ==
    LET w == walk(t, n)
    IN  SumSeq([i \in 1 .. Len(w) |->
            IF isinstance(t, w[i],
                   {"If", "For", "While", "AsyncFor", "Try", "With", "AsyncWith"})
            THEN 1 ELSE 0])

_count_branches(t, n) ==
    LET w == walk(t, n)
    IN  SumSeq([i \in 1 .. Len(w) |->
            CASE isinstance(t, w[i],
                     {"If", "For", "While", "AsyncFor", "Try", "With", "AsyncWith"}) -> 1
              [] isinstance(t, w[i], {"ExceptHandler"}) -> 1
              [] OTHER -> 0])

\* the count without the elif branch for comprehensions
CountLoopsStatementsOnly(t, n) ==
    LET w == walk(t, n)
    IN  SumSeq([i \in 1 .. Len(w) |->
            IF isinstance(t, w[i], {"For", "While", "AsyncFor"}) THEN 1 ELSE 0])

_count_loops(t, n) ==
    LET w == walk(t, n)
    IN  SumSeq([i \in 1 .. Len(w) |->
            CASE isinstance(t, w[i], {"For", "While", "AsyncFor"}) -> 1
              [] isinstance(t, w[i],
                     {"ListComp", "DictComp", "SetComp", "GeneratorExp"}) -> 1
              [] OTHER -> 0])

calculate_complexity(t, n) ==
    [cyclomatic_complexity |-> _cyclomatic_complexity(t, n),
     cognitive_complexity |-> _cognitive_complexity(t, n),
     nesting_depth |-> _max_nesting_depth(t, n),
     num_branches |-> _count_branches(t, n),
     num_loops |-> _count_loops(t, n)]

(***************************************************************************)
(* SpecComplexity: calculate_complexity applied to the root of a function  *)
(* subtree.                                                                *)
(***************************************************************************)
NoMetrics ==
    [cyclomatic_complexity |-> -1, cognitive_complexity |-> -1,
     nesting_depth |-> -1, num_branches |-> -1, num_loops |-> -1]

InitComplexity ==
    /\ code = ValidCode(<<Node("FunctionDef", 0, 0)>>)
    /\ node = 1
    /\ metrics = NoMetrics
    /\ result = None
    /\ args = NoArguments
    /\ parameters = <<>>
    /\ expression = None
    /\ renderer = ""
    /\ rendered = None
    /\ has_unparse = TRUE
    /\ pc = "ready"
    /\ calls = <<>>
    /\ heap = <<>>
    /\ func = <<>>
    /\ summary = <<>>

CalculateComplexity ==
    /\ pc = "ready"
    /\ metrics' = calculate_complexity(code.tree, node)
    /\ pc' = "done"
    /\ UNCHANGED <<func, summary, calls, heap, code, result, node, args, parameters, expression, renderer,
                   rendered, has_unparse>>

NextComplexity ==
    \/ AppendNode({AnalysedTrees, IfTrees, TryTrees})
    \/ CalculateComplexity

SpecComplexity == InitComplexity /\ [][NextComplexity]_vars

(***************************************************************************)
(* Shapes of function subtrees the claims speak of.                        *)
(***************************************************************************)
Descendants(t, n) == {i \in 1 .. Len(t) : i # n /\ n \in AncestorsOrSelf(t, i)}

\* a node the analyzer counts nowhere, with no counted node below it
Plain(t, n) ==
    \A i \in {n} \cup Descendants(t, n) : t[i].kind \in {"OtherStmt", "OtherExpr"}

ChildrenOfKind(t, n, kinds) ==
    {i \in 1 .. Len(t) : t[i].parent = n /\ t[i].kind \in kinds}

\* the body of the function at the root is a sequence of `if` statements
\* whose tests and bodies hold nothing the analyzer counts, and of plain
\* statements
SequentialIfsOnly(t) ==
    \A i \in 2 .. Len(t) :
        \/ t[i].parent = 1 /\ t[i].kind = "If"
        \/ Plain(t, i) /\ (t[i].parent = 1 \/ t[t[i].parent].parent = 1)

\* a and b are `if` statements of the root's body, b the statement after a
ConsecutiveIfs(t, a, b) ==
    /\ t[a].parent = 1 /\ t[b].parent = 1
    /\ t[a].kind = "If" /\ t[b].kind = "If"
    /\ a < b
    /\ \A i \in (a + 1) .. (b - 1) : a \in AncestorsOrSelf(t, i)

\* the same function with statement b moved to the end of the body of a
NestInto(t, a, b) == [t EXCEPT ![b].parent = a]

\* C5: every call of calculate_complexity on a function subtree returns
\* cyclomatic_complexity >= 1 and the four other metrics >= 0.
C5_MetricsLowerBounds ==
    pc = "done" =>
        /\ metrics.cyclomatic_complexity >= 1
        /\ metrics.cognitive_complexity >= 0
        /\ metrics.nesting_depth >= 0
        /\ metrics.num_branches >= 0
        /\ metrics.num_loops >= 0

\* a function holding a counted construct whose metrics are at the floor
\* in all but one place
C5_Witness ==
    /\ pc = "done"
    /\ Len(code.tree) = 2
    /\ code.tree[2].kind = "Assert"
    /\ metrics.cyclomatic_complexity = 2
    /\ metrics.cognitive_complexity = 0
    /\ metrics.num_loops = 0

\* C6: a function whose body is n >= 0 sequential `if` statements with
\* plain tests and bodies (and plain statements besides, such as a single
\* return) has cyclomatic_complexity 1 + n.
C6_SequentialIfsAdditive ==
    (pc = "done" /\ SequentialIfsOnly(code.tree)) =>
        metrics.cyclomatic_complexity
            = 1 + Cardinality(ChildrenOfKind(code.tree, 1, {"If"}))

\* two `if` statements, each with a one-statement body
C6_Witness ==
    /\ pc = "done"
    /\ SequentialIfsOnly(code.tree)
    /\ Len(code.tree) = 5
    /\ Cardinality(ChildrenOfKind(code.tree, 1, {"If"})) = 2
    /\ \A i \in ChildrenOfKind(code.tree, 1, {"If"}) :
           ChildrenOfKind(code.tree, i, {"OtherStmt"}) # {}
    /\ metrics.cyclomatic_complexity = 3

\* C7: for two consecutive `if` statements of a function body, the
\* function has a strictly lower cognitive_complexity than the function
\* with the second nested in the first, and the same cyclomatic_complexity.
C7_NestingCostsCognitive ==
    pc = "done" =>
        \A a, b \in 2 .. Len(code.tree) :
            ConsecutiveIfs(code.tree, a, b) =>
                /\ metrics.cognitive_complexity
                       < _cognitive_complexity(NestInto(code.tree, a, b), node)
                /\ metrics.cyclomatic_complexity
                       = _cyclomatic_complexity(NestInto(code.tree, a, b), node)

\* the two functions of the claim: `if` twice in sequence scores 2, nested 3
C7_Witness ==
    /\ pc = "done"
    /\ Len(code.tree) = 3
    /\ ConsecutiveIfs(code.tree, 2, 3)
    /\ metrics.cognitive_complexity = 2
    /\ _cognitive_complexity(NestInto(code.tree, 2, 3), node) = 3
    /\ metrics.cyclomatic_complexity = 3

\* the descendants of n of the given kinds
Below(t, n, kinds) == {i \in Descendants(t, n) : t[i].kind \in kinds}

\* the sum of f over the set S of its domain
RECURSIVE SumOver(_, _)
SumOver(f, S) ==
    IF S = {} THEN 0
    ELSE LET x == CHOOSE x \in S : TRUE
         IN  f[x] + SumOver(f, S \ {x})

MaxOf(S) == CHOOSE m \in S : \A x \in S : x <= m

ComprehensionKinds == {"ListComp", "DictComp", "SetComp", "GeneratorExp"}

\* the nodes strictly between n and d on the path from n down to d
Between(t, n, d) == (AncestorsOrSelf(t, d) \ {d}) \cap Descendants(t, n)

\* C15: cyclomatic_complexity is 1 plus a flat sum over all descendants of
\* the function node, those inside nested definitions included: 1 per
\* if/while/for/async-for, per exception handler, per with/async-with, per
\* assert and per comprehension or generator expression, and k - 1 per
\* and/or expression of k operands.
C15_CyclomaticFlatSum ==
    pc = "done" =>
        metrics.cyclomatic_complexity
            = 1 + Cardinality(Below(code.tree, node, {"If", "While", "For", "AsyncFor"}))
                + Cardinality(Below(code.tree, node, {"ExceptHandler"}))
                + Cardinality(Below(code.tree, node, {"With", "AsyncWith"}))
                + Cardinality(Below(code.tree, node, {"Assert"}))
                + Cardinality(Below(code.tree, node, ComprehensionKinds))
                + SumOver([b \in Below(code.tree, node, {"BoolOp"}) |->
                              code.tree[b].nvalues - 1],
                          Below(code.tree, node, {"BoolOp"}))

\* a function nested in the analysed one holds `a and b and c`
C15_Witness ==
    /\ pc = "done"
    /\ Len(code.tree) = 3
    /\ code.tree[2].kind = "FunctionDef"
    /\ code.tree[3].kind = "BoolOp" /\ code.tree[3].parent = 2 /\ code.tree[3].nvalues = 3
    /\ metrics.cyclomatic_complexity = 3

\* the constructs that cost 1 + nestingLevel and raise the level below them
LevelKinds == {"If", "While", "For", "AsyncFor", "ExceptHandler", "With", "AsyncWith"}

\* the nestingLevel at which the walk from n meets d
LevelOf(t, n, d) ==
    Cardinality({a \in Between(t, n, d) : t[a].kind \in LevelKinds})

\* C16: cognitive_complexity is the sum over the nodes the recursive walk
\* from the function root meets, at nestingLevel 0 below the root and one
\* level higher below each if/while/for/async-for, exception handler and
\* with/async-with, of 1 + nestingLevel for each of those constructs, k - 1
\* for an and/or expression of k operands, 1 for a comprehension, generator
\* expression or lambda, and 0 for any other node.
C16_CognitiveNestedSum ==
    pc = "done" =>
        metrics.cognitive_complexity
            = SumOver([d \in Descendants(code.tree, node) |->
                          CASE code.tree[d].kind \in LevelKinds ->
                                  1 + LevelOf(code.tree, node, d)
                            [] code.tree[d].kind = "BoolOp" -> code.tree[d].nvalues - 1
                            [] code.tree[d].kind \in ComprehensionKinds \cup {"Lambda"} -> 1
                            [] OTHER -> 0],
                      Descendants(code.tree, node))

\* try: ... except: if ...: the handler costs 1, the `if` in it 2
C16_Witness ==
    /\ pc = "done"
    /\ Len(code.tree) = 4
    /\ code.tree[2].kind = "Try"
    /\ code.tree[3].kind = "ExceptHandler"
    /\ code.tree[4].kind = "If" /\ code.tree[4].parent = 3
    /\ metrics.cognitive_complexity = 3

\* the constructs that deepen the nesting
DepthKinds ==
    {"If", "While", "For", "AsyncFor", "With", "AsyncWith", "Try",
     "FunctionDef", "AsyncFunctionDef", "ClassDef"}

\* the nodes of DepthKinds on the path from n to d, n itself left out
DepthOf(t, n, d) ==
    Cardinality({a \in (Between(t, n, d) \cup {d}) \ {n} : t[a].kind \in DepthKinds})

\* C17: nesting_depth is the maximum over the paths from the function root
\* of the number of nodes below the root on the path that are an if, while,
\* for, async-for, with, async-with, try, function or class definition; the
\* root itself and exception handlers do not count, and without such a
\* construct the depth is 0.
C17_NestingDepthIsLongestPath ==
    pc = "done" =>
        /\ metrics.nesting_depth
               = MaxOf({DepthOf(code.tree, node, d) :
                           d \in {node} \cup Descendants(code.tree, node)})
        /\ Below(code.tree, node, DepthKinds) = {} => metrics.nesting_depth = 0

\* try: ... except: if ...: the try and the `if` count, the handler does not
C17_Witness ==
    /\ pc = "done"
    /\ Len(code.tree) = 4
    /\ code.tree[2].kind = "Try"
    /\ code.tree[3].kind = "ExceptHandler"
    /\ code.tree[4].kind = "If" /\ code.tree[4].parent = 3
    /\ metrics.nesting_depth = 2

\* C18: num_branches is the number of descendants that are an if, for,
\* while, async-for, try, with or async-with statement plus the number of
\* exception handlers, so a try statement with h handlers adds 1 + h.
C18_BranchesCounted ==
    pc = "done" =>
        /\ metrics.num_branches
               = Cardinality(Below(code.tree, node,
                     {"If", "For", "While", "AsyncFor", "Try", "With", "AsyncWith"}))
                 + Cardinality(Below(code.tree, node, {"ExceptHandler"}))
        /\ \A n \in Below(code.tree, node, {"Try"}) :
              (\A d \in Descendants(code.tree, n) :
                   code.tree[d].kind \in {"ExceptHandler", "OtherStmt", "OtherExpr"}) =>
                  calculate_complexity(code.tree, n).num_branches
                      = 1 + Cardinality(ChildrenOfKind(code.tree, n, {"ExceptHandler"}))

\* a try statement with two handlers: 3 branches
C18_Witness ==
    /\ pc = "done"
    /\ Len(code.tree) = 4
    /\ code.tree[2].kind = "Try"
    /\ code.tree[3].kind = "ExceptHandler" /\ code.tree[3].parent = 2
    /\ code.tree[4].kind = "ExceptHandler" /\ code.tree[4].parent = 2
    /\ metrics.num_branches = 3

\* C19: num_loops is the number of descendants that are a for, while or
\* async-for statement plus the number that are a list, dict or set
\* comprehension or a generator expression, each counted once.
C19_LoopsCounted ==
    pc = "done" =>
        metrics.num_loops
            = Cardinality(Below(code.tree, node, {"For", "While", "AsyncFor"}))
              + Cardinality(Below(code.tree, node, ComprehensionKinds))

\* a for statement over a list comprehension: 2 loops
C19_Witness ==
    /\ pc = "done"
    /\ Len(code.tree) = 3
    /\ code.tree[2].kind = "For"
    /\ code.tree[3].kind = "ListComp" /\ code.tree[3].parent = 2
    /\ metrics.num_loops = 2

(***************************************************************************)
(* Expressions of annotations, defaults, decorators and base classes, and  *)
(* their rendering.  A Python value of a Constant is its type and the text *)
(* str() gives for it.                                                     *)
(***************************************************************************)
\* str(value) and repr(value) of a Python str or int
str(v) == v.text
repr(v) == IF v.type = "str" THEN "'" \o v.text \o "'" ELSE v.text

\* ast.unparse: the source text of an expression
RECURSIVE unparse(_)
unparse(e) ==
    CASE e.kind = "Name" -> e.id
      [] e.kind = "Constant" -> repr(e.value[1])
      [] e.kind = "Attribute" -> unparse(e.value[1]) \o "." \o e.attr
      [] e.kind = "Subscript" -> unparse(e.value[1]) \o "[int]"

\* type(node).__name__
TypeName(e) == e.kind

RECURSIVE _parse_annotation(_)
\* the except branch of _parse_annotation
AnnotationFallback(annotation) ==
    CASE annotation.kind = "Name" -> annotation.id
      [] annotation.kind = "Constant" -> str(annotation.value[1])
      [] annotation.kind = "Attribute" ->
            _parse_annotation(annotation.value)[1] \o "." \o annotation.attr
      [] OTHER -> TypeName(annotation)

\* annotation is None or <<expression>>; so is the value returned
_parse_annotation(annotation) ==
    IF annotation = None THEN None
    ELSE IF has_unparse THEN Some(unparse(annotation[1]))
    ELSE Some(AnnotationFallback(annotation[1]))

_parse_default_value(default) ==
    IF has_unparse THEN unparse(default)
    ELSE CASE default.kind = "Constant" -> repr(default.value[1])
           [] default.kind = "Name" -> default.id
           [] OTHER -> "..."

_parse_decorator(decorator) ==
    IF has_unparse THEN unparse(decorator)
    ELSE IF decorator.kind = "Name" THEN decorator.id
    ELSE TypeName(decorator)

_parse_base_class(base) ==
    IF has_unparse THEN unparse(base)
    ELSE IF base.kind = "Name" THEN base.id
    ELSE TypeName(base)

(***************************************************************************)
(* _parse_parameters                                                       *)
(***************************************************************************)
\* the offset that leaves every positional parameter without a default
DefaultsOffsetPastEnd(a) == Len(a.args)

\* default_index = len(defaults) - 1 - (i - defaults_offset)
DefaultIndexReversed(a, i) ==
    Len(a.defaults) - 1 - (i - (Len(a.args) - Len(a.defaults)))

\* defaults_offset and default_index of the positional loop, i from 0
DefaultsOffset(a) == Len(a.args) - Len(a.defaults)
DefaultIndex(a, i) == i - DefaultsOffset(a)

PositionalParameter(a, i) ==
    [name |-> a.args[i + 1].arg,
     annotation |-> _parse_annotation(a.args[i + 1].annotation),
     default |-> IF i >= DefaultsOffset(a)
                 THEN Some(_parse_default_value(a.defaults[DefaultIndex(a, i) + 1]))
                 ELSE None,
     kind |-> "positional"]

\* the default taken from the first keyword-only parameter, from this one
\* on, that has one
KeywordOnlyParameterNextDefault(a, i) ==
    LET later == {j \in (i + 1) .. Len(a.kw_defaults) : a.kw_defaults[j] # None}
    IN  [name |-> a.kwonlyargs[i + 1].arg,
         annotation |-> _parse_annotation(a.kwonlyargs[i + 1].annotation),
         default |-> IF later # {}
                     THEN Some(_parse_default_value(
                              a.kw_defaults[CHOOSE j \in later :
                                               \A k \in later : j <= k][1]))
                     ELSE None,
         kind |-> "keyword_only"]

KeywordOnlyParameter(a, i) ==
    [name |-> a.kwonlyargs[i + 1].arg,
     annotation |-> _parse_annotation(a.kwonlyargs[i + 1].annotation),
     default |-> IF i < Len(a.kw_defaults) /\ a.kw_defaults[i + 1] # None
                 THEN Some(_parse_default_value(a.kw_defaults[i + 1][1]))
                 ELSE None,
     kind |-> "keyword_only"]

_parse_parameters(a) ==
    [i \in 1 .. Len(a.args) |-> PositionalParameter(a, i - 1)]
    \o (IF a.vararg # None
        THEN <<[name |-> "*" \o a.vararg[1].arg,
                annotation |-> _parse_annotation(a.vararg[1].annotation),
                default |-> None, kind |-> "var_positional"]>>
        ELSE <<>>)
    \o [i \in 1 .. Len(a.kwonlyargs) |-> KeywordOnlyParameter(a, i - 1)]
    \o (IF a.kwarg # None
        THEN <<[name |-> "**" \o a.kwarg[1].arg,
                annotation |-> _parse_annotation(a.kwarg[1].annotation),
                default |-> None, kind |-> "var_keyword"]>>
        ELSE <<>>)

(***************************************************************************)
(* SpecParameters: _parse_parameters applied to the ast.arguments of one   *)
(* signature.  SpecRender: one rendering method applied to one expression. *)
(***************************************************************************)
arg(name, annotation) == [arg |-> name, annotation |-> annotation]

\* the signature with np positional-only and na positional parameters, nd
\* defaults (the j-th is the literal j), *args if va, nk keyword-only
\* parameters of which those in kd have a default, **kwargs if kw, and
\* every parameter annotated with ann
ArgumentsOf(np, na, nd, va, nk, kd, kw, ann) ==
    [posonlyargs |-> [i \in 1 .. np |-> arg("o" \o ToString(i), ann)],
     args |-> [i \in 1 .. na |-> arg("p" \o ToString(i), ann)],
     vararg |-> IF va THEN Some(arg("args", ann)) ELSE None,
     kwonlyargs |-> [i \in 1 .. nk |-> arg("k" \o ToString(i), ann)],
     kw_defaults |-> [i \in 1 .. nk |->
                        IF i \in kd THEN Some(Constant("str", "k" \o ToString(i)))
                        ELSE None],
     kwarg |-> IF kw THEN Some(arg("kwargs", ann)) ELSE None,
     defaults |-> [j \in 1 .. nd |-> Constant("int", ToString(j))]]

AnnotationChoices == {None, Some(Name("int")), Some(Attribute(Name("a"), "b"))}

InitParameters ==
    /\ \E np \in 0 .. MaxPosOnly, na \in 0 .. MaxParams, va \in BOOLEAN,
          nk \in 0 .. MaxKwOnly, kw \in BOOLEAN, ann \in AnnotationChoices :
          \E nd \in 0 .. (np + na), kd \in SUBSET (1 .. nk) :
              args = ArgumentsOf(np, na, nd, va, nk, kd, kw, ann)
    /\ has_unparse \in BOOLEAN
    /\ parameters = <<>>
    /\ code = ValidCode(<<>>)
    /\ result = None
    /\ node = 0
    /\ metrics = NoMetrics
    /\ expression = None
    /\ renderer = ""
    /\ rendered = None
    /\ pc = "ready"
    /\ calls = <<>>
    /\ heap = <<>>
    /\ func = <<>>
    /\ summary = <<>>

ParseParameters ==
    /\ pc = "ready"
    /\ parameters' = _parse_parameters(args)
    /\ pc' = "done"
    /\ UNCHANGED <<func, summary, calls, heap, code, result, node, metrics, args, expression, renderer,
                   rendered, has_unparse>>

NextParameters == ParseParameters

SpecParameters == InitParameters /\ [][NextParameters]_vars

Atoms ==
    {Name("int"), Name("a"), Constant("str", ""), Constant("str", "x"),
     Constant("int", "1")}

RECURSIVE ExprsUpTo(_)
ExprsUpTo(depth) ==
    IF depth = 0 THEN Atoms
    ELSE LET inner == ExprsUpTo(depth - 1)
         IN  inner \cup {Attribute(e, "b") : e \in inner}
                   \cup {Subscript(e) : e \in inner}

InitRender ==
    /\ expression \in {None} \cup {Some(e) : e \in ExprsUpTo(MaxExprDepth)}
    /\ has_unparse \in BOOLEAN
    /\ renderer = ""
    /\ rendered = None
    /\ args = NoArguments
    /\ parameters = <<>>
    /\ code = ValidCode(<<>>)
    /\ result = None
    /\ node = 0
    /\ metrics = NoMetrics
    /\ pc = "ready"
    /\ calls = <<>>
    /\ heap = <<>>
    /\ func = <<>>
    /\ summary = <<>>

Render(method, value) ==
    /\ pc = "ready"
    /\ renderer' = method
    /\ rendered' = value
    /\ pc' = "done"
    /\ UNCHANGED <<func, summary, calls, heap, code, result, node, metrics, args, parameters, expression,
                   has_unparse>>

ParseAnnotation ==
    /\ pc = "ready"
    /\ Render("_parse_annotation", _parse_annotation(expression))

ParseDefaultValue ==
    /\ expression # None
    /\ Render("_parse_default_value", Some(_parse_default_value(expression[1])))

\* before ast.unparse existed a decorator was a dotted name (or a call)
RECURSIVE DottedName(_)
DottedName(e) ==
    \/ e.kind = "Name"
    \/ e.kind = "Attribute" /\ DottedName(e.value[1])

ParseDecorator ==
    /\ expression # None
    /\ has_unparse \/ DottedName(expression[1])
    /\ Render("_parse_decorator", Some(_parse_decorator(expression[1])))

ParseBaseClass ==
    /\ expression # None
    /\ Render("_parse_base_class", Some(_parse_base_class(expression[1])))

NextRender ==
    \/ ParseAnnotation
    \/ ParseDefaultValue
    \/ ParseDecorator
    \/ ParseBaseClass

SpecRender == InitRender /\ [][NextRender]_vars

\* the records of kind 'positional' of a parameter list
PositionalRecords(ps) == SelectSeq(ps, LAMBDA r : r.kind = "positional")

\* C4: with p positional parameters and d <= p defaults, the first p - d
\* positional records have default None and the i-th of the last d has the
\* rendering of the i-th default expression.
C4_DefaultsRightAligned ==
    (pc = "done" /\ Len(args.defaults) <= Len(args.args)) =>
        LET p == Len(args.args)
            d == Len(args.defaults)
            pos == PositionalRecords(parameters)
        IN  /\ Len(pos) = p
            /\ \A i \in 1 .. p :
                  /\ pos[i].name = args.args[i].arg
                  /\ i <= p - d => pos[i].default = None
                  /\ i > p - d =>
                        pos[i].default
                            = Some(_parse_default_value(args.defaults[i - (p - d)]))

\* f(a, b, c=1, d=2): no default, no default, '1', '2'
C4_Witness ==
    /\ pc = "done"
    /\ Len(args.args) = 4
    /\ Len(args.defaults) = 2
    /\ has_unparse
    /\ [i \in 1 .. 4 |-> parameters[i].default] = <<None, None, Some("1"), Some("2")>>

(***************************************************************************)
(* PythonASTParser.parse_code                                              *)
(***************************************************************************)
\* the statements below a node at any depth, in source order
BodyWithNested(t, n) ==
    SelectSeq([i \in 1 .. Len(t) |-> i],
              LAMBDA i : i \in Descendants(t, n) /\ t[i].kind \in StmtKinds)

\* node.body: the statements among the children
Body(t, n) == SelectSeq(iter_child_nodes(t, n), LAMBDA i : t[i].kind \in StmtKinds)

\* node.lineno and node.end_lineno: every statement and handler clause of
\* the module starts a line
lineno(t, n) ==
    Cardinality({i \in 2 .. n : t[i].kind \in StmtKinds \cup {"ExceptHandler"}})
end_lineno(t, n) ==
    lineno(t, CHOOSE last \in 1 .. Len(t) :
                  /\ n \in AncestorsOrSelf(t, last)
                  /\ \A i \in (last + 1) .. Len(t) : n \notin AncestorsOrSelf(t, i))

\* ast.get_docstring, and the test of _get_module_docstring: the value of
\* the first statement of the body when it is a string expression
DocstringOf(t, n) ==
    LET body == Body(t, n)
    IN  IF body # <<>> /\ t[body[1]].kind = "StrExpr"
        THEN Some("doc of " \o NameOf(body[1]))
        ELSE None

\* the first string expression anywhere in the module body
ModuleDocstringAnywhere(t) ==
    LET strings == SelectSeq(Body(t, 1), LAMBDA i : t[i].kind = "StrExpr")
    IN  IF strings # <<>> THEN Some("doc of " \o NameOf(strings[1])) ELSE None

\* the docstring with '' in place of None
ModuleDocstringOrEmpty(t) ==
    IF DocstringOf(t, 1) = None THEN Some("") ELSE DocstringOf(t, 1)

_get_module_docstring(t) == DocstringOf(t, 1)

\* end_lineno is set by every parser that builds ast.Constant nodes
_count_lines(t, n) == end_lineno(t, n) - lineno(t, n) + 1

_parse_import(t, n) ==
    <<[type |-> "import", module |-> NameOf(n), alias |-> None,
       line_number |-> lineno(t, n)]>>

_parse_import_from(t, n) ==
    <<[type |-> "from_import", module |-> NameOf(n), name |-> "x",
       alias |-> None, line_number |-> lineno(t, n)]>>

\* the test that accepts the statements of the module body only
IsTopLevelInModuleBody(t, func_node) == t[func_node].parent = 1

\* the test that accepts every function
IsTopLevelAlways(t, func_node) == TRUE

\* the test with the class itself left out of the walk over its subtree
IsTopLevelBelowClassOnly(t, func_node) ==
    LET w == walk(t, 1)
    IN  ~ \E i \in 1 .. Len(w) :
            /\ isinstance(t, w[i], {"ClassDef"})
            /\ LET wc == walk(t, w[i])
               IN  \E j \in 1 .. Len(wc) :
                      t[wc[j]].parent # w[i] /\ wc[j] = func_node

_is_top_level_function(t, func_node) ==
    LET w == walk(t, 1)
    IN  ~ \E i \in 1 .. Len(w) :
            /\ isinstance(t, w[i], {"ClassDef"})
            /\ LET wc == walk(t, w[i])
               IN  \E j \in 1 .. Len(wc) : wc[j] = func_node

_parse_function(t, n) ==
    [name |-> NameOf(n),
     line_number |-> lineno(t, n),
     docstring |-> DocstringOf(t, n),
     parameters |-> _parse_parameters(t[n].args),
     return_annotation |-> _parse_annotation(t[n].returns),
     decorators |-> [i \in 1 .. Len(t[n].decorator_list) |->
                        _parse_decorator(t[n].decorator_list[i])],
     is_async |-> isinstance(t, n, {"AsyncFunctionDef"}),
     complexity |-> calculate_complexity(t, n),
     lines_of_code |-> _count_lines(t, n)]

\* a record for the first target alone
ParseClassAttributesFirstTarget(t, n) ==
    IF t[n].targets[1].kind = "Name"
    THEN <<[name |-> t[n].targets[1].id, line_number |-> lineno(t, n),
            annotation |-> _parse_annotation(None)]>>
    ELSE <<>>

\* an ast.Assign has no attribute `annotation`: getattr gives None
_parse_class_attributes(t, n) ==
    Flatten([i \in 1 .. Len(t[n].targets) |->
                IF t[n].targets[i].kind = "Name"
                THEN <<[name |-> t[n].targets[i].id,
                        line_number |-> lineno(t, n),
                        annotation |-> _parse_annotation(None)]>>
                ELSE <<>>])

_parse_class(t, n) ==
    LET body == Body(t, n)
    IN  [name |-> NameOf(n),
         line_number |-> lineno(t, n),
         docstring |-> DocstringOf(t, n),
         bases |-> [i \in 1 .. Len(t[n].bases) |-> _parse_base_class(t[n].bases[i])],
         decorators |-> [i \in 1 .. Len(t[n].decorator_list) |->
                            _parse_decorator(t[n].decorator_list[i])],
         methods |-> Flatten([i \in 1 .. Len(body) |->
                        IF isinstance(t, body[i], {"FunctionDef", "AsyncFunctionDef"})
                        THEN <<_parse_function(t, body[i])>>
                        ELSE <<>>]),
         attributes |-> Flatten([i \in 1 .. Len(body) |->
                        IF isinstance(t, body[i], {"Assign"})
                        THEN _parse_class_attributes(t, body[i])
                        ELSE <<>>]),
         lines_of_code |-> _count_lines(t, n)]

\* the order in which the loop of parse_code meets the nodes
WalkOrder(t) == walk(t, 1)

\* the result dict: each list is extended in the order of the loop
ParsedDict(t) ==
    LET w == WalkOrder(t)
    IN  [functions |-> Flatten([i \in 1 .. Len(w) |->
            IF isinstance(t, w[i], {"FunctionDef"}) /\ _is_top_level_function(t, w[i])
            THEN <<_parse_function(t, w[i])>>
            ELSE <<>>]),
         classes |-> Flatten([i \in 1 .. Len(w) |->
            IF isinstance(t, w[i], {"ClassDef"})
            THEN <<_parse_class(t, w[i])>>
            ELSE <<>>]),
         imports |-> Flatten([i \in 1 .. Len(w) |->
            CASE isinstance(t, w[i], {"Import"}) -> _parse_import(t, w[i])
              [] isinstance(t, w[i], {"ImportFrom"}) -> _parse_import_from(t, w[i])
              [] OTHER -> <<>>]),
         module_docstring |-> _get_module_docstring(t)]

\* str(e) of the SyntaxError ast.parse raises: "msg (<unknown>, line N)"
SyntaxErrorStr(e) ==
    e.msg \o " (<unknown>, line " \o ToString(e.lineno[1]) \o ")"

\* the exception of line 47: a plain Exception made of a message; the
\* SyntaxError it was raised from stays behind as its __context__
WrappedException(e) ==
    [type |-> "Exception",
     message |-> "Failed to parse code: " \o SyntaxErrorStr(e),
     lineno |-> None, offset |-> None, text |-> None,
     context |-> Some([type |-> "SyntaxError"] @@ e)]

Returned(value) == [raised |-> FALSE, value |-> Some(value), exception |-> None]
Raised(exception) == [raised |-> TRUE, value |-> None, exception |-> Some(exception)]

parse_code(c) ==
    IF c.valid THEN Returned(ParsedDict(c.tree))
    ELSE Raised(WrappedException(c.error))

(***************************************************************************)
(* Spec: a text is written, then parse_code is called on it.               *)
(***************************************************************************)
SyntaxErrors ==
    {[msg |-> "invalid syntax", lineno |-> Some(l), offset |-> o, text |-> x] :
        l \in 1 .. MaxLine, o \in {None, Some(1)}, x \in {None, Some("def f(:")}}

InvalidCode(e) == [valid |-> FALSE, tree |-> <<>>, error |-> e]

Init ==
    /\ code \in {ValidCode(<<Node("Module", 0, 0)>>)}
                   \cup {InvalidCode(e) : e \in SyntaxErrors}
    /\ result = None
    /\ has_unparse = TRUE
    /\ node = 0
    /\ metrics = NoMetrics
    /\ args = NoArguments
    /\ parameters = <<>>
    /\ expression = None
    /\ renderer = ""
    /\ rendered = None
    /\ pc = "ready"
    /\ calls = <<>>
    /\ heap = <<>>
    /\ func = <<>>
    /\ summary = <<>>

ParseCode ==
    /\ pc = "ready"
    /\ result' = Some(parse_code(code))
    /\ pc' = "done"
    /\ UNCHANGED <<func, summary, calls, heap, code, node, metrics, args, parameters, expression, renderer,
                   rendered, has_unparse>>

\* the signature f(p1: int, p2: int = 1) -> int under the decorator @a,
\* or the class header with base a under the decorator @a
Signed(n) ==
    IF n.kind = "ClassDef"
    THEN [n EXCEPT !.bases = <<Name("a")>>, !.decorator_list = <<Name("a")>>]
    ELSE [n EXCEPT !.args = ArgumentsOf(0, 2, 1, FALSE, 0, {}, FALSE, Some(Name("int"))),
                   !.returns = Some(Name("int")),
                   !.decorator_list = <<Name("a")>>]

\* the signature (x: int, y: int = 2) -> int, undecorated
Annotated(n) ==
    [n EXCEPT !.args = [NoArguments EXCEPT
                           !.args = <<arg("x", Some(Name("int"))),
                                      arg("y", Some(Name("int")))>>,
                           !.defaults = <<Constant("int", "2")>>],
              !.returns = Some(Name("int"))]

\* the first statement of the module, a definition, gets a signature
Sign ==
    /\ pc = "ready"
    /\ code.valid
    /\ Len(code.tree) = 2
    /\ LET last == code.tree[Len(code.tree)]
       IN  /\ last.kind \in {"FunctionDef", "AsyncFunctionDef", "ClassDef"}
           /\ last = Node(last.kind, last.parent, 0)
           /\ \/ code' = ValidCode([code.tree EXCEPT ![Len(code.tree)] = Signed(last)])
              \/ /\ last.kind = "FunctionDef"
                 /\ code' = ValidCode([code.tree EXCEPT
                                           ![Len(code.tree)] = Annotated(last)])
    /\ UNCHANGED <<func, summary, calls, heap, result, node, metrics, args, parameters, expression,
                   renderer, rendered, has_unparse, pc>>

Next ==
    \/ AppendNode({DeepTrees, ParserTrees, ScenarioTrees})
    \/ Sign
    \/ ParseCode

Spec == Init /\ [][Next]_vars

(***************************************************************************)
(* SpecClass: parse_code on modules of classes, methods and assignments.   *)
(***************************************************************************)
ClassTrees ==
    [kinds |-> {"ClassDef", "FunctionDef", "If", "Assign", "OtherStmt"},
     max |-> MaxDeepNodes]

\* x = 1; x = y = 1; a, b = 1, 2; self.z = 3; q[0] = 1; u = v.k = 2
TargetLists ==
    {<<Name("x")>>, <<Name("x"), Name("y")>>, <<Tuple>>,
     <<Attribute(Name("self"), "z")>>, <<Subscript(Name("q"))>>,
     <<Name("u"), Attribute(Name("v"), "k")>>}

\* the next statement of the text is an assignment
AppendAssign ==
    /\ pc = "ready"
    /\ code.valid
    /\ KindsIn(code.tree) \subseteq ClassTrees.kinds
    /\ Len(code.tree) - 1 < ClassTrees.max
    /\ \E p \in AncestorsOrSelf(code.tree, Len(code.tree)), ts \in TargetLists :
          /\ CanParent(code.tree[p].kind, "Assign")
          /\ code' = ValidCode(Append(code.tree,
                                      [Node("Assign", p, 0) EXCEPT !.targets = ts]))
    /\ UNCHANGED <<func, summary, calls, heap, result, node, metrics, args, parameters, expression,
                   renderer, rendered, has_unparse, pc>>

NextClass ==
    \/ AppendNode({ClassTrees})
    \/ AppendAssign
    \/ ParseCode

SpecClass == Init /\ [][NextClass]_vars

(***************************************************************************)
(* SpecConcurrent: several threads call parse_code, on one parser instance *)
(* or on several.  An invocation owns its frame: the locals tree and       *)
(* result (lines 23-30) and the deque of ast.walk.  The instance holds one *)
(* attribute, complexity_analyzer, assigned in __init__ and never again;   *)
(* the analyzer has no attribute.  A step of an invocation is the          *)
(* try-block entry, one iteration of the loop of line 32, or the return.   *)
(***************************************************************************)
Callers == 1 .. MaxCalls

\* the module whose statements have the given kinds and parents
ModuleOf(stmts) ==
    ValidCode(<<Node("Module", 0, 0)>>
              \o [i \in 1 .. Len(stmts) |-> Node(stmts[i][1], stmts[i][2], 0)])

\* import, a function with a nested function; a class with a method, a
\* function, a from-import; a text that does not parse
Texts ==
    {ModuleOf(<< <<"Import", 1>>, <<"FunctionDef", 1>>, <<"FunctionDef", 3>> >>),
     ModuleOf(<< <<"ClassDef", 1>>, <<"FunctionDef", 2>>, <<"FunctionDef", 1>>,
                 <<"ImportFrom", 1>> >>),
     InvalidCode([msg |-> "invalid syntax", lineno |-> Some(1), offset |-> Some(1),
                  text |-> Some("def f(:")])}

\* where the dict `result` of invocation c lives: in the frame of c
ResultCellOnInstance(c) == <<"self", calls[c].self>>
ResultCell(c) == <<"frame", c>>

Cells == ({"frame"} \X Callers) \cup ({"self"} \X Callers)

\* result = {'functions': [], 'classes': [], 'imports': [], ...}
NewResult(t) ==
    [functions |-> <<>>, classes |-> <<>>, imports |-> <<>>,
     module_docstring |-> _get_module_docstring(t)]

\* the body of the loop of line 32 for one node
Visited(r, t, n) ==
    CASE isinstance(t, n, {"Import"}) ->
            [r EXCEPT !.imports = @ \o _parse_import(t, n)]
      [] isinstance(t, n, {"ImportFrom"}) ->
            [r EXCEPT !.imports = @ \o _parse_import_from(t, n)]
      [] isinstance(t, n, {"FunctionDef"}) ->
            IF _is_top_level_function(t, n)
            THEN [r EXCEPT !.functions = Append(@, _parse_function(t, n))]
            ELSE r
      [] isinstance(t, n, {"ClassDef"}) ->
            [r EXCEPT !.classes = Append(@, _parse_class(t, n))]
      [] OTHER -> r

\* the first call is made on instance 1, every other on instance 1 or on
\* an instance of its own
InitConcurrent ==
    /\ calls \in {cs \in [Callers -> [self : Callers, code : Texts, pc : {"start"},
                                      todo : {<<>>}, outcome : {None},
                                      interleaved : {FALSE}]] :
                     \A c \in Callers : cs[c].self \in {1, c}}
    /\ heap = [cell \in Cells |-> None]
    /\ func = <<>>
    /\ summary = <<>>
    /\ code = ValidCode(<<>>)
    /\ result = None
    /\ has_unparse = TRUE
    /\ node = 0
    /\ metrics = NoMetrics
    /\ args = NoArguments
    /\ parameters = <<>>
    /\ expression = None
    /\ renderer = ""
    /\ rendered = None
    /\ pc = "ready"

\* another invocation is between its entry and its return
Overlaps(c) == \E d \in Callers \ {c} : calls[d].pc = "loop"

\* lines 23-30, or line 47 when ast.parse raises
Enter(c) ==
    /\ calls[c].pc = "start"
    /\ IF calls[c].code.valid
       THEN /\ heap' = [heap EXCEPT ![ResultCell(c)] =
                                        Some(NewResult(calls[c].code.tree))]
            /\ calls' = [calls EXCEPT ![c].pc = "loop", ![c].todo = <<1>>,
                                      ![c].interleaved = @ \/ Overlaps(c)]
       ELSE /\ calls' = [calls EXCEPT
                            ![c].pc = "done",
                            ![c].outcome =
                                Some(Raised(WrappedException(calls[c].code.error)))]
            /\ UNCHANGED heap
    /\ UNCHANGED <<func, summary, code, result, node, metrics, args, parameters,
                   expression, renderer, rendered, has_unparse, pc>>

\* one iteration of `for node in ast.walk(tree)`
Visit(c) ==
    /\ calls[c].pc = "loop"
    /\ calls[c].todo # <<>>
    /\ LET t == calls[c].code.tree
           n == Head(calls[c].todo)
       IN  /\ calls' = [calls EXCEPT
                            ![c].todo = Tail(@) \o iter_child_nodes(t, n),
                            ![c].interleaved = @ \/ Overlaps(c)]
           /\ heap' = [heap EXCEPT ![ResultCell(c)] = Some(Visited(@[1], t, n))]
    /\ UNCHANGED <<func, summary, code, result, node, metrics, args, parameters,
                   expression, renderer, rendered, has_unparse, pc>>

\* return result
Return(c) ==
    /\ calls[c].pc = "loop"
    /\ calls[c].todo = <<>>
    /\ calls' = [calls EXCEPT ![c].pc = "done",
                              ![c].outcome = Some(Returned(heap[ResultCell(c)][1]))]
    /\ UNCHANGED <<func, summary, code, result, node, metrics, args, parameters,
                   expression, renderer, rendered, has_unparse, pc, heap>>

NextConcurrent ==
    \E c \in Callers :
        \/ Enter(c)
        \/ Visit(c)
        \/ Return(c)

SpecConcurrent == InitConcurrent /\ [][NextConcurrent]_vars

\* C13: invocations of parse_code running at once, on one parser instance
\* or on several, do not interfere: under every interleaving each returns
\* (or raises) what it does when run alone on its text.
C13_InvocationsIndependent ==
    \A c \in Callers :
        calls[c].pc = "done" => calls[c].outcome = Some(parse_code(calls[c].code))

\* two invocations on one instance, on different texts that parse, have
\* each taken steps while the other was running, and have returned
C13_Witness ==
    /\ calls[1].pc = "done" /\ calls[2].pc = "done"
    /\ calls[1].self = calls[2].self
    /\ calls[1].code.valid /\ calls[2].code.valid
    /\ calls[1].code # calls[2].code
    /\ calls[1].interleaved /\ calls[2].interleaved
    /\ ~calls[1].outcome[1].raised /\ ~calls[2].outcome[1].raised

(***************************************************************************)
(* DocumentationGenerator._generate_function_summary                       *)
(* (utils/doc_generator.py).  A Python str is a sequence of pieces: single *)
(* characters (names and annotations, which the code tests character by    *)
(* character) and the string literals the code appends, each kept whole.   *)
(* None of those literals ends with a period, and each one that opens a    *)
(* summary starts with a capital letter.                                   *)
(***************************************************************************)
LowerCase ==
    <<"a", "b", "c", "d", "e", "f", "g", "h", "i", "j", "k", "l", "m", "n", "o",
      "p", "q", "r", "s", "t", "u", "v", "w", "x", "y", "z">>
UpperCase ==
    <<"A", "B", "C", "D", "E", "F", "G", "H", "I", "J", "K", "L", "M", "N", "O",
      "P", "Q", "R", "S", "T", "U", "V", "W", "X", "Y", "Z">>

\* str.lower and str.upper
lower(s) ==
    [i \in 1 .. Len(s) |->
        IF \E k \in 1 .. 26 : UpperCase[k] = s[i]
        THEN LowerCase[CHOOSE k \in 1 .. 26 : UpperCase[k] = s[i]]
        ELSE s[i]]
upper(s) ==
    [i \in 1 .. Len(s) |->
        IF \E k \in 1 .. 26 : LowerCase[k] = s[i]
        THEN UpperCase[CHOOSE k \in 1 .. 26 : LowerCase[k] = s[i]]
        ELSE s[i]]

\* str.startswith (of a str, or of a tuple of them) and str.endswith
startswith(s, prefix) ==
    Len(s) >= Len(prefix) /\ SubSeq(s, 1, Len(prefix)) = prefix
startswith_any(s, prefixes) == \E prefix \in prefixes : startswith(s, prefix)
endswith(s, suffix) ==
    Len(s) >= Len(suffix) /\ SubSeq(s, Len(s) - Len(suffix) + 1, Len(s)) = suffix

\* " ".join(parts)
RECURSIVE join(_)
join(parts) ==
    IF parts = <<>> THEN <<>>
    ELSE IF Len(parts) = 1 THEN parts[1]
    ELSE parts[1] \o <<" ">> \o join(Tail(parts))

\* the else branch of lines 238-262: the name's prefix group
NamePatternDescription(name_lower) ==
    CASE startswith_any(name_lower,
            {<<"g", "e", "t">>, <<"f", "e", "t", "c", "h">>,
             <<"r", "e", "t", "r", "i", "e", "v", "e">>,
             <<"f", "i", "n", "d">>}) ->
            <<"Retrieves or fetches data">>
      [] startswith_any(name_lower,
            {<<"s", "e", "t">>, <<"u", "p", "d", "a", "t", "e">>,
             <<"m", "o", "d", "i", "f", "y">>,
             <<"c", "h", "a", "n", "g", "e">>}) ->
            <<"Updates or modifies data">>
      [] startswith_any(name_lower,
            {<<"c", "r", "e", "a", "t", "e">>, <<"m", "a", "k", "e">>,
             <<"b", "u", "i", "l", "d">>,
             <<"g", "e", "n", "e", "r", "a", "t", "e">>}) ->
            <<"Creates or generates new data">>
      [] startswith_any(name_lower,
            {<<"d", "e", "l", "e", "t", "e">>,
             <<"r", "e", "m", "o", "v", "e">>, <<"c", "l", "e", "a", "r">>}) ->
            <<"Removes or deletes data">>
      [] startswith_any(name_lower,
            {<<"s", "a", "v", "e">>, <<"s", "t", "o", "r", "e">>,
             <<"w", "r", "i", "t", "e">>}) ->
            <<"Saves or stores data">>
      [] startswith_any(name_lower,
            {<<"l", "o", "a", "d">>, <<"r", "e", "a", "d">>,
             <<"o", "p", "e", "n">>}) ->
            <<"Loads or reads data">>
      [] startswith_any(name_lower,
            {<<"c", "h", "e", "c", "k">>, <<"v", "e", "r", "i", "f", "y">>,
             <<"v", "a", "l", "i", "d", "a", "t", "e">>}) ->
            <<"Validates or checks conditions">>
      [] startswith_any(name_lower,
            {<<"c", "a", "l", "c", "u", "l", "a", "t", "e">>,
             <<"c", "o", "m", "p", "u", "t", "e">>,
             <<"p", "r", "o", "c", "e", "s", "s">>}) ->
            <<"Performs calculations or processing">>
      [] startswith_any(name_lower,
            {<<"f", "o", "r", "m", "a", "t">>,
             <<"c", "o", "n", "v", "e", "r", "t">>,
             <<"t", "r", "a", "n", "s", "f", "o", "r", "m">>}) ->
            <<"Formats or transforms data">>
      [] startswith_any(name_lower,
            {<<"i", "s", "_">>, <<"h", "a", "s", "_">>,
             <<"c", "a", "n", "_">>}) ->
            <<"Returns a boolean result based on conditions">>
      [] OTHER -> <<"Performs a specific operation">>

\* the elif of line 236 made to accept a single leading underscore only
BasicDescriptionSingleUnderscore(name) ==
    IF startswith(name, <<"_", "_">>) /\ endswith(name, <<"_", "_">>)
    THEN (CASE name = <<"_", "_", "i", "n", "i", "t", "_", "_">> ->
                  <<"Creates a new instance of the class">>
            [] name = <<"_", "_", "s", "t", "r", "_", "_">> ->
                  <<"Returns a string representation of the object">>
            [] name = <<"_", "_", "r", "e", "p", "r", "_", "_">> ->
                  <<"Returns a detailed string representation for debugging">>
            [] name = <<"_", "_", "l", "e", "n", "_", "_">> ->
                  <<"Returns the length or size of the object">>
            [] name = <<"_", "_", "c", "a", "l", "l", "_", "_">> ->
                  <<"Makes the object callable like a function">>
            [] OTHER -> <<"Special method ">> \o name)
    ELSE IF startswith(name, <<"_">>) /\ ~startswith(name, <<"_", "_">>)
    THEN <<"Private helper method">>
    ELSE NamePatternDescription(lower(name))

\* lines 223-262: the first part of the summary
BasicDescription(name) ==
    IF startswith(name, <<"_", "_">>) /\ endswith(name, <<"_", "_">>)
    THEN (CASE name = <<"_", "_", "i", "n", "i", "t", "_", "_">> ->
                  <<"Creates a new instance of the class">>
            [] name = <<"_", "_", "s", "t", "r", "_", "_">> ->
                  <<"Returns a string representation of the object">>
            [] name = <<"_", "_", "r", "e", "p", "r", "_", "_">> ->
                  <<"Returns a detailed string representation for debugging">>
            [] name = <<"_", "_", "l", "e", "n", "_", "_">> ->
                  <<"Returns the length or size of the object">>
            [] name = <<"_", "_", "c", "a", "l", "l", "_", "_">> ->
                  <<"Makes the object callable like a function">>
            [] OTHER -> <<"Special method ">> \o name)
    ELSE IF startswith(name, <<"_">>)
    THEN <<"Private helper method">>
    ELSE NamePatternDescription(lower(name))

\* lines 264-280: the parts about the parameters
ParameterParts(params) ==
    LET non_self_params ==
            SelectSeq(params, LAMBDA p : p.name \notin {<<"s", "e", "l", "f">>,
                                                         <<"c", "l", "s">>})
        param_count == Len(non_self_params)
        required_params ==
            SelectSeq(non_self_params,
                      LAMBDA p : p.default = None /\ ~startswith(p.name, <<"*">>))
        optional_params == SelectSeq(non_self_params, LAMBDA p : p.default # None)
    IN  IF non_self_params # <<>>
        THEN << (IF param_count = 1 THEN <<"with 1 parameter">>
                 ELSE <<"with ", ToString(param_count), " parameters">>) >>
             \o (CASE required_params # <<>> /\ optional_params # <<>> ->
                         << <<"(", ToString(Len(required_params)), " required, ",
                              ToString(Len(optional_params)), " optional)">> >>
                   [] required_params = <<>> /\ optional_params # <<>> ->
                         << <<"(all ", ToString(Len(optional_params)), " optional)">> >>
                   [] OTHER -> <<>>)
        ELSE << <<"with no parameters">> >>

\* lines 282-297: the part about the return type; return_type is None or
\* <<str>>, and '' is as false as None
ReturnParts(return_type) ==
    IF return_type = None \/ return_type[1] = <<>> THEN <<>>
    ELSE LET rt == lower(return_type[1])
         IN  CASE rt = <<"n", "o", "n", "e">> -> << <<"without returning a value">> >>
               [] rt \in {<<"s", "t", "r">>, <<"s", "t", "r", "i", "n", "g">>} ->
                     << <<"and returns text">> >>
               [] rt \in {<<"i", "n", "t">>,
                       <<"i", "n", "t", "e", "g", "e", "r">>,
                       <<"f", "l", "o", "a", "t">>,
                       <<"n", "u", "m", "b", "e", "r">>} ->
                     << <<"and returns a number">> >>
               [] rt \in {<<"b", "o", "o", "l">>,
                       <<"b", "o", "o", "l", "e", "a", "n">>} ->
                     << <<"and returns True or False">> >>
               [] rt \in {<<"l", "i", "s", "t">>, <<"t", "u", "p", "l", "e">>,
                       <<"s", "e", "t">>} ->
                     << <<"and returns a collection">> >>
               [] rt \in {<<"d", "i", "c", "t">>,
                       <<"d", "i", "c", "t", "i", "o", "n", "a", "r", "y">>} ->
                     << <<"and returns a dictionary">> >>
               [] OTHER -> << <<"and returns ">> \o return_type[1] >>

\* the thresholds with >= in place of >
ComplexityPartsInclusive(cyclomatic) ==
    CASE cyclomatic >= 10 -> << <<"(complex logic)">> >>
      [] cyclomatic >= 5 -> << <<"(moderate complexity)">> >>
      [] cyclomatic >= 1 -> << <<"(simple logic)">> >>
      [] OTHER -> <<>>

\* lines 299-306: the complexity qualifier
ComplexityParts(cyclomatic) ==
    CASE cyclomatic > 10 -> << <<"(complex logic)">> >>
      [] cyclomatic > 5 -> << <<"(moderate complexity)">> >>
      [] cyclomatic > 1 -> << <<"(simple logic)">> >>
      [] OTHER -> <<>>

\* func is the dict of a function or method; complexity is None (no
\* 'complexity' key, or a dict without 'cyclomatic_complexity': get gives 0)
\* or <<cyclomatic_complexity>>
_generate_function_summary(f) ==
    LET cyclomatic == IF f.complexity = None THEN 0 ELSE f.complexity[1]
        summary_parts ==
            <<BasicDescription(f.name)>>
            \o ParameterParts(f.parameters)
            \o ReturnParts(f.return_annotation)
            \o ComplexityParts(cyclomatic)
        joined == IF Len(summary_parts) > 1
                  THEN summary_parts[1] \o <<" ">> \o join(Tail(summary_parts))
                  ELSE summary_parts[1]
        \* summary[0].upper() + summary[1:]
        capitalized == IF \E k \in 1 .. 26 : LowerCase[k] = joined[1]
                       THEN upper(<<joined[1]>>) \o Tail(joined)
                       ELSE joined
    IN  IF capitalized # <<>> /\ ~endswith(capitalized, <<".">>)
        THEN capitalized \o <<".">>
        ELSE capitalized

(***************************************************************************)
(* SpecSummary: _generate_function_summary applied to one function record. *)
(***************************************************************************)
SummaryNames ==
    {<<"_", "_", "i", "n", "i", "t", "_", "_">>,
     <<"_", "_", "s", "t", "r", "_", "_">>,
     <<"_", "_", "r", "e", "p", "r", "_", "_">>,
     <<"_", "_", "l", "e", "n", "_", "_">>,
     <<"_", "_", "c", "a", "l", "l", "_", "_">>,
     <<"_", "_", "e", "q", "_", "_">>, <<"_", "_">>,
     <<"_", "h", "e", "l", "p", "e", "r">>,
     <<"_", "_", "s", "e", "c", "r", "e", "t">>, <<"g", "e", "t", "X">>,
     <<"I", "s", "_", "o", "k">>, <<"r", "u", "n">>,
     <<"s", "e", "t", "u", "p">>}

param(name, default) == [name |-> name, default |-> default]

\* (), (self), (self, x), (x, y=1), (y=1), (cls, *a)
SummaryParameters ==
    {<<>>,
     <<param(<<"s", "e", "l", "f">>, None)>>,
     <<param(<<"s", "e", "l", "f">>, None), param(<<"x">>, None)>>,
     <<param(<<"x">>, None), param(<<"y">>, Some("1"))>>,
     <<param(<<"y">>, Some("1"))>>,
     <<param(<<"c", "l", "s">>, None), param(<<"*", "a">>, None)>>}

\* no annotation, 'None', 'int', 'Str', 'Foo.' and '' (the last two are what
\* the fallback of _parse_annotation gives for string annotations)
SummaryReturnTypes ==
    {None, Some(<<"N", "o", "n", "e">>), Some(<<"i", "n", "t">>),
     Some(<<"S", "t", "r">>), Some(<<"F", "o", "o", ".">>), Some(<<>>)}

InitSummary ==
    /\ func \in [name : SummaryNames, parameters : SummaryParameters,
                 return_annotation : SummaryReturnTypes,
                 complexity : {None} \cup {Some(c) : c \in 0 .. MaxCyclomatic}]
    /\ summary = <<>>
    /\ calls = <<>>
    /\ heap = <<>>
    /\ code = ValidCode(<<>>)
    /\ result = None
    /\ has_unparse = TRUE
    /\ node = 0
    /\ metrics = NoMetrics
    /\ args = NoArguments
    /\ parameters = <<>>
    /\ expression = None
    /\ renderer = ""
    /\ rendered = None
    /\ pc = "ready"

GenerateFunctionSummary ==
    /\ pc = "ready"
    /\ summary' = _generate_function_summary(func)
    /\ pc' = "done"
    /\ UNCHANGED <<func, calls, heap, code, result, node, metrics, args, parameters,
                   expression, renderer, rendered, has_unparse>>

NextSummary == GenerateFunctionSummary

SpecSummary == InitSummary /\ [][NextSummary]_vars

(***************************************************************************)
(* Claims about parse_code.                                                *)
(***************************************************************************)
Tree == code.tree
Parsed == result[1].value[1]
ReturnedDone == pc = "done" /\ code.valid /\ ~result[1].raised

DefKinds == {"FunctionDef", "AsyncFunctionDef"}
Names(records) == {records[i].name : i \in 1 .. Len(records)}
Lines(records) == [i \in 1 .. Len(records) |-> records[i].line_number]
Ascending(lines) == \A i, j \in 1 .. Len(lines) : i < j => lines[i] < lines[j]

\* C1: a function defined directly in a class body is in no record of
\* 'functions', and a function defined directly in the module is in no
\* class's 'methods'.
C1_FunctionsApartFromMethods ==
    ReturnedDone =>
        \A n \in 2 .. Len(Tree) :
            Tree[n].kind \in DefKinds =>
                /\ Tree[Tree[n].parent].kind = "ClassDef"
                      => NameOf(n) \notin Names(Parsed.functions)
                /\ Tree[n].parent = 1
                      => \A c \in 1 .. Len(Parsed.classes) :
                            NameOf(n) \notin Names(Parsed.classes[c].methods)

\* the module of the claim: free function n2, class n3 with method n4
C1_Witness ==
    /\ ReturnedDone
    /\ Len(Tree) = 4
    /\ Tree[2].kind = "FunctionDef" /\ Tree[2].parent = 1
    /\ Tree[3].kind = "ClassDef" /\ Tree[3].parent = 1
    /\ Tree[4].kind = "FunctionDef" /\ Tree[4].parent = 3
    /\ Lines(Parsed.functions) = <<1>>
    /\ Names(Parsed.functions) = {"n2"}
    /\ Len(Parsed.classes) = 1
    /\ Lines(Parsed.classes[1].methods) = <<3>>
    /\ Names(Parsed.classes[1].methods) = {"n4"}

\* C2: every record of 'functions' is a function defined directly in
\* module scope, nested neither in a function nor in a class.
C2_FunctionsAreModuleLevel ==
    ReturnedDone =>
        \A n \in 2 .. Len(Tree) :
            (Tree[n].kind \in DefKinds /\ NameOf(n) \in Names(Parsed.functions))
                => Tree[n].parent = 1

\* C3: 'imports', 'functions' and 'classes' each list their records in
\* source order, nested statements included.
C3_SourceOrder ==
    ReturnedDone =>
        /\ Ascending(Lines(Parsed.imports))
        /\ Ascending(Lines(Parsed.functions))
        /\ Ascending(Lines(Parsed.classes))

\* the exception names line l: as an attribute or in its message
CarriesLine(exception, l) ==
    \/ exception.lineno = l
    \/ \E e \in SyntaxErrors :
          /\ e.lineno = l
          /\ exception.message = "Failed to parse code: " \o SyntaxErrorStr(e)

\* C9: on a text that does not parse, parse_code returns nothing and
\* raises an error that carries the line number, and the column and the
\* line text when the parser supplied them.
C9_ParseErrorCarriesPosition ==
    (pc = "done" /\ ~code.valid) =>
        /\ result[1].raised
        /\ result[1].value = None
        /\ CarriesLine(result[1].exception[1], code.error.lineno)
        /\ code.error.offset # None
              => result[1].exception[1].offset = code.error.offset
        /\ code.error.text # None
              => result[1].exception[1].text = code.error.text

\* the fallback the claim describes; a constant in either textual form
RECURSIVE ClaimedFallbacks(_)
ClaimedFallbacks(e) ==
    CASE e.kind = "Name" -> {e.id}
      [] e.kind = "Constant" -> {str(e.value[1]), repr(e.value[1])}
      [] e.kind = "Attribute" ->
            {owner \o "." \o e.attr : owner \in ClaimedFallbacks(e.value[1])}
      [] OTHER -> {TypeName(e), "..."}

\* C10: every annotation, default, decorator and base-class expression is
\* rendered to its source text or, when ast.unparse fails, to a non-empty
\* fallback: the identifier of a name, the text of a constant,
\* owner.member for an attribute chain, a placeholder otherwise.
C10_RenderedNonEmptyFallback ==
    (pc = "done" /\ expression # None) =>
        /\ rendered # None
        /\ rendered[1] # ""
        /\ has_unparse => rendered[1] = unparse(expression[1])
        /\ ~has_unparse => rendered[1] \in ClaimedFallbacks(expression[1])

\* the tree of
\*     def f(x: int, y: int = 2) -> int:
\*         if x > 0:
\*             return x + y
\*         return y
\* (f is named n2 after its place)
ScenarioTree(t) ==
    /\ Len(t) = 5
    /\ t[2] = Annotated(Node("FunctionDef", 1, 0))
    /\ t[3] = Node("If", 2, 0)
    /\ t[4] = Node("OtherStmt", 3, 0)
    /\ t[5] = Node("OtherStmt", 2, 0)

\* name, annotation and default of the records of a parameter list
Declared(ps) ==
    [i \in 1 .. Len(ps) |->
        <<ps[i].name, ps[i].annotation, ps[i].default>>]

\* C11: for `def f(x: int, y: int = 2) -> int:` with body `if x > 0: return
\* x + y` then `return y`, parse_code yields exactly one function, f, with
\* parameters x (annotation 'int', no default) and y (annotation 'int',
\* default '2'), return_annotation 'int', cyclomatic_complexity 2,
\* num_branches 1, num_loops 0 and nesting_depth 1.
C11_ScenarioRecord ==
    (ReturnedDone /\ ScenarioTree(Tree)) =>
        /\ Len(Parsed.functions) = 1
        /\ LET f == Parsed.functions[1]
           IN  /\ f.name = NameOf(2)
               /\ Declared(f.parameters)
                      = << <<"x", Some("int"), None>>, <<"y", Some("int"), Some("2")>> >>
               /\ f.return_annotation = Some("int")
               /\ f.complexity.cyclomatic_complexity = 2
               /\ f.complexity.num_branches = 1
               /\ f.complexity.num_loops = 0
               /\ f.complexity.nesting_depth = 1

\* parse_code has returned for the text of the scenario
C11_Witness ==
    /\ ReturnedDone
    /\ ScenarioTree(Tree)
    /\ Names(Parsed.functions) = {"n2"}
    /\ Parsed.functions[1].lines_of_code = 4

\* the definitions that are direct statements of the body of n, in order
DirectDefs(t, n) ==
    SelectSeq([i \in 1 .. Len(t) |-> i],
              LAMBDA i : t[i].parent = n /\ t[i].kind \in DefKinds)

NameSeq(records) == [i \in 1 .. Len(records) |-> records[i].name]

\* C12: the 'methods' of every class record are exactly the function and
\* async-function definitions that are direct statements of the class
\* body, in body order; methods of a nested class and functions nested in
\* a method are not among them.
C12_MethodsAreDirectDefs ==
    ReturnedDone =>
        /\ Names(Parsed.classes) = {NameOf(n) : n \in {i \in 2 .. Len(Tree) :
                                                        Tree[i].kind = "ClassDef"}}
        /\ \A c \in 1 .. Len(Parsed.classes) :
              \A n \in 2 .. Len(Tree) :
                  (Tree[n].kind = "ClassDef" /\ NameOf(n) = Parsed.classes[c].name)
                      => NameSeq(Parsed.classes[c].methods)
                             = [i \in 1 .. Len(DirectDefs(Tree, n)) |->
                                   NameOf(DirectDefs(Tree, n)[i])]

\* class n2 with the method n3 and the function n4 nested in n3
C12_Witness ==
    /\ ReturnedDone
    /\ Len(Tree) = 4
    /\ Tree[2].kind = "ClassDef"
    /\ Tree[3].kind \in DefKinds /\ Tree[3].parent = 2
    /\ Tree[4].kind \in DefKinds /\ Tree[4].parent = 3
    /\ NameSeq(Parsed.classes[1].methods) = <<"n3">>

\* C14: for a module without statements (empty, or whitespace and comments
\* only) parse_code returns functions == [], classes == [], imports == []
\* and module_docstring None.
C14_EmptyModule ==
    (pc = "done" /\ code.valid /\ Len(Tree) = 1) =>
        /\ ~result[1].raised
        /\ Parsed.functions = <<>>
        /\ Parsed.classes = <<>>
        /\ Parsed.imports = <<>>
        /\ Parsed.module_docstring = None

\* parse_code has returned for the module without statements
C14_Witness ==
    /\ ReturnedDone
    /\ Len(Tree) = 1
    /\ result[1].exception = None
    /\ Parsed.module_docstring = None

\* n is in the subtree of no class definition
OutsideClasses(t, n) ==
    \A a \in AncestorsOrSelf(t, n) : t[a].kind # "ClassDef"

\* C20: an async function definition that is a descendant of no class
\* definition has one record in 'functions', with is_async True.
C20_AsyncFunctionsCollected ==
    ReturnedDone =>
        \A n \in 2 .. Len(Tree) :
            (Tree[n].kind = "AsyncFunctionDef" /\ OutsideClasses(Tree, n)) =>
                Cardinality({i \in 1 .. Len(Parsed.functions) :
                                /\ Parsed.functions[i].name = NameOf(n)
                                /\ Parsed.functions[i].is_async}) = 1

\* the records of a list that carry the name of node n
Occurrences(records, n) ==
    Cardinality({i \in 1 .. Len(records) : records[i].name = NameOf(n)})

C23_ModuleDocstringFirstStatement ==
    ReturnedDone =>
        Parsed.module_docstring
            = IF Len(Tree) >= 2 /\ Tree[2].kind = "StrExpr"
              THEN Some("doc of " \o NameOf(2))
              ELSE None

\* a module that opens with a string, and one more string after it
C23_Witness ==
    /\ ReturnedDone
    /\ Len(Tree) = 3
    /\ Tree[2].kind = "StrExpr"
    /\ Tree[3].kind = "StrExpr"
    /\ Parsed.module_docstring = Some("doc of n2")

\* the records of every 'methods' list that carry the name of node n
MethodOccurrences(n) ==
    SumSeq([c \in 1 .. Len(Parsed.classes) |->
               Occurrences(Parsed.classes[c].methods, n)])

\* C30: no function definition is recorded twice: 'classes' has exactly one
\* record per class definition at any depth; a function that is a direct
\* statement of a class body is in the 'methods' of that class and nowhere
\* else; a function below a class that is not a direct statement of a class
\* body (nested in a method) is in neither 'functions' nor any 'methods'.
C30_DefinitionsRecordedAtMostOnce ==
    ReturnedDone =>
        /\ \A n \in 2 .. Len(Tree) :
              Occurrences(Parsed.classes, n)
                  = IF Tree[n].kind = "ClassDef" THEN 1 ELSE 0
        /\ \A n \in 2 .. Len(Tree) :
              Tree[n].kind \in DefKinds =>
                  /\ Occurrences(Parsed.functions, n) + MethodOccurrences(n) <= 1
                  /\ Tree[Tree[n].parent].kind = "ClassDef" =>
                        /\ Occurrences(Parsed.functions, n) = 0
                        /\ MethodOccurrences(n) = 1
                        /\ \A c \in 1 .. Len(Parsed.classes) :
                              Occurrences(Parsed.classes[c].methods, n) = 1
                                  => Parsed.classes[c].name = NameOf(Tree[n].parent)
                  /\ (~OutsideClasses(Tree, n) /\ Tree[Tree[n].parent].kind # "ClassDef") =>
                        /\ Occurrences(Parsed.functions, n) = 0
                        /\ MethodOccurrences(n) = 0

\* class n2 with the method n3 and the function n4 nested in n3: one
\* class record, n3 its only method, n4 nowhere
C30_Witness ==
    /\ ReturnedDone
    /\ Len(Tree) = 4
    /\ Tree[2].kind = "ClassDef"
    /\ Tree[3].kind = "FunctionDef" /\ Tree[3].parent = 2
    /\ Tree[4].kind = "FunctionDef" /\ Tree[4].parent = 3
    /\ Parsed.functions = <<>>
    /\ NameSeq(Parsed.classes) = <<"n2">>
    /\ MethodOccurrences(3) = 1
    /\ MethodOccurrences(4) = 0

\* name, kind and default of the records of a parameter list
Shape(ps) == [i \in 1 .. Len(ps) |-> <<ps[i].name, ps[i].kind, ps[i].default>>]

\* C22: _parse_parameters emits the positional parameters, then the
\* variadic-positional one (name prefixed with '*') if present, then the
\* keyword-only ones, then the variadic-keyword one (prefixed with '**') if
\* present; a keyword-only parameter has its own default or None, whatever
\* the later ones have, and a variadic parameter has default None.
C22_ParameterOrder ==
    pc = "done" =>
        Shape(parameters)
            = [i \in 1 .. Len(args.args) |->
                  <<args.args[i].arg, "positional", parameters[i].default>>]
              \o (IF args.vararg # None
                  THEN << <<"*" \o args.vararg[1].arg, "var_positional", None>> >>
                  ELSE <<>>)
              \o [j \in 1 .. Len(args.kwonlyargs) |->
                    <<args.kwonlyargs[j].arg, "keyword_only",
                      IF args.kw_defaults[j] = None THEN None
                      ELSE Some(_parse_default_value(args.kw_defaults[j][1]))>>]
              \o (IF args.kwarg # None
                  THEN << <<"**" \o args.kwarg[1].arg, "var_keyword", None>> >>
                  ELSE <<>>)

\* f(p1, *args, k1, k2='k2', **kwargs): k1 has no default though k2 has
C22_Witness ==
    /\ pc = "done"
    /\ has_unparse
    /\ Shape(parameters)
          = << <<"p1", "positional", None>>, <<"*args", "var_positional", None>>,
               <<"k1", "keyword_only", None>>, <<"k2", "keyword_only", Some("'k2'")>>,
               <<"**kwargs", "var_keyword", None>> >>

\* C27: 'parameters' has one record per parameter declared in the
\* signature: positional-only, positional-or-keyword, variadic-positional,
\* keyword-only and variadic-keyword parameters.
C27_EveryParameterRecorded ==
    pc = "done" =>
        Len(parameters)
            = Len(args.posonlyargs) + Len(args.args)
              + (IF args.vararg # None THEN 1 ELSE 0)
              + Len(args.kwonlyargs)
              + (IF args.kwarg # None THEN 1 ELSE 0)

\* C28: the five metrics of one calculate_complexity call on a function
\* subtree are consistent: cyclomatic_complexity >= 1 + num_loops;
\* cyclomatic_complexity >= 1 + num_branches - (number of try statements);
\* cognitive_complexity >= cyclomatic_complexity - 1 - (number of assert
\* statements); nesting_depth = 0 whenever num_branches = 0 and the subtree
\* holds no nested function or class definition.
C28_MetricsConsistent ==
    pc = "done" =>
        /\ metrics.cyclomatic_complexity >= 1 + metrics.num_loops
        /\ metrics.cyclomatic_complexity
               >= 1 + metrics.num_branches - Cardinality(Below(Tree, node, {"Try"}))
        /\ metrics.cognitive_complexity
               >= metrics.cyclomatic_complexity - 1
                  - Cardinality(Below(Tree, node, {"Assert"}))
        /\ (/\ metrics.num_branches = 0
            /\ Below(Tree, node, DefKinds \cup {"ClassDef"}) = {})
               => metrics.nesting_depth = 0

\* `with` around `assert`: cyclomatic 3, cognitive 1, one assert; both
\* bounds on cyclomatic_complexity are met with equality at 1 + branches
C28_Witness ==
    /\ pc = "done"
    /\ Len(Tree) = 3
    /\ Tree[2].kind = "With"
    /\ Tree[3].kind = "Assert" /\ Tree[3].parent = 2
    /\ metrics.cyclomatic_complexity = 3
    /\ metrics.cognitive_complexity = 1
    /\ metrics.num_branches = 1
    /\ metrics.num_loops = 0

\* the body of the function at the root is one if/elif chain of n
\* conditions: an `if`, each `elif` the `if` in the else-branch of the one
\* before, with plain tests and bodies
ElifChain(t, n) ==
    /\ Cardinality(Below(t, 1, {"If"})) = n
    /\ Cardinality(ChildrenOfKind(t, 1, {"If"})) = 1
    /\ \A i \in 2 .. Len(t) :
          \/ /\ t[i].kind = "If"
             /\ Cardinality(ChildrenOfKind(t, i, {"If"})) <= 1
             /\ t[i].parent = 1 \/ t[t[i].parent].kind = "If"
          \/ /\ t[i].kind \in {"OtherStmt", "OtherExpr"}
             /\ t[i].parent # 1
             /\ Plain(t, i)

\* C29: a function whose body is one if/elif chain of n conditions, with
\* simple tests and branch-free bodies, has nesting_depth n,
\* cognitive_complexity n(n+1)/2, cyclomatic_complexity 1 + n and
\* num_branches n.
C29_ElifChainIsNested ==
    pc = "done" =>
        \A n \in 1 .. Len(Tree) :
            ElifChain(Tree, n) =>
                /\ metrics.nesting_depth = n
                /\ 2 * metrics.cognitive_complexity = n * (n + 1)
                /\ metrics.cyclomatic_complexity = 1 + n
                /\ metrics.num_branches = n

\* if / elif / elif, the first two with a statement in their bodies
C29_Witness ==
    /\ pc = "done"
    /\ Len(Tree) = 6
    /\ ElifChain(Tree, 3)
    /\ Tree[3].kind = "OtherStmt" /\ Tree[3].parent = 2
    /\ Tree[4].kind = "If" /\ Tree[4].parent = 2
    /\ metrics.nesting_depth = 3
    /\ metrics.cognitive_complexity = 6

\* the plain names among the targets of assignment a, each with its line
NamedTargets(t, a) ==
    LET names == SelectSeq(t[a].targets, LAMBDA target : target.kind = "Name")
    IN  [i \in 1 .. Len(names) |-> <<names[i].id, lineno(t, a)>>]

\* the assignments that are direct statements of the body of n, in order
DirectAssigns(t, n) ==
    SelectSeq([i \in 1 .. Len(t) |-> i],
              LAMBDA i : t[i].parent = n /\ t[i].kind = "Assign")

\* C24: the 'attributes' of a class hold, in body order, one record per
\* plain-name target of each assignment that is a direct statement of the
\* class body (`x = y = 1` gives two records with one line number); other
\* targets and assignments nested in methods give none.
C24_AttributesArePlainNameTargets ==
    ReturnedDone =>
        \A c \in 1 .. Len(Parsed.classes) :
            \A n \in 2 .. Len(Tree) :
                (Tree[n].kind = "ClassDef" /\ NameOf(n) = Parsed.classes[c].name) =>
                    [i \in 1 .. Len(Parsed.classes[c].attributes) |->
                        <<Parsed.classes[c].attributes[i].name,
                          Parsed.classes[c].attributes[i].line_number>>]
                        = Flatten([i \in 1 .. Len(DirectAssigns(Tree, n)) |->
                                      NamedTargets(Tree, DirectAssigns(Tree, n)[i])])

\* class n2: x = y = 1 on line 2, then self.z = 3
C24_Witness ==
    /\ ReturnedDone
    /\ Len(Tree) = 4
    /\ Tree[2].kind = "ClassDef"
    /\ Tree[3].kind = "Assign" /\ Tree[3].parent = 2
    /\ Tree[3].targets = <<Name("x"), Name("y")>>
    /\ Tree[4].kind = "Assign" /\ Tree[4].parent = 2
    /\ Tree[4].targets = <<Attribute(Name("self"), "z")>>
    /\ Len(Parsed.classes[1].attributes) = 2
    /\ Parsed.classes[1].attributes[1].line_number = 2
    /\ Parsed.classes[1].attributes[2].line_number = 2

\* the name is wrapped in double underscores
Dunder(name) == startswith(name, <<"_", "_">>) /\ endswith(name, <<"_", "_">>)

\* the phrases for __init__, __str__, __repr__, __len__ and __call__
CannedPhrases ==
    {"Creates a new instance of the class",
     "Returns a string representation of the object",
     "Returns a detailed string representation for debugging",
     "Returns the length or size of the object",
     "Makes the object callable like a function"}
CannedNames ==
    {<<"_", "_", "i", "n", "i", "t", "_", "_">>, <<"_", "_", "s", "t", "r", "_", "_">>,
     <<"_", "_", "r", "e", "p", "r", "_", "_">>, <<"_", "_", "l", "e", "n", "_", "_">>,
     <<"_", "_", "c", "a", "l", "l", "_", "_">>}

\* what the summary says of a name wrapped in double underscores
SpecialMethodPhrase(name) ==
    IF name \in CannedNames
    THEN summary[1] \in CannedPhrases
    ELSE startswith(summary, <<"Special method ">> \o name)

\* the summary opens with the phrase of the name's prefix group
PrefixGroupPhrase(name) == summary[1] = NamePatternDescription(lower(name))[1]

ClaimedQualifier(c) ==
    CASE c > 10 -> Some("(complex logic)")
      [] 5 < c /\ c <= 10 -> Some("(moderate complexity)")
      [] 1 < c /\ c <= 5 -> Some("(simple logic)")
      [] c <= 1 -> None

Qualifiers == {"(complex logic)", "(moderate complexity)", "(simple logic)"}

\* the qualifiers in a summary, in order
QualifiersIn(s) == SelectSeq(s, LAMBDA piece : piece \in Qualifiers)

\* C26: the complexity qualifier depends on cyclomatic_complexity c alone:
\* '(complex logic)' when c > 10, '(moderate complexity)' when 5 < c <= 10,
\* '(simple logic)' when 1 < c <= 5, none when c <= 1 or when the record has
\* no complexity data; and the summary is a non-empty sentence that ends
\* with a period.
C26_ComplexityQualifier ==
    pc = "done" =>
        LET c == IF func.complexity = None THEN 0 ELSE func.complexity[1]
        IN  /\ QualifiersIn(summary) = ClaimedQualifier(c)
            /\ ClaimedQualifier(c) # None =>
                  endswith(summary, <<" ">> \o ClaimedQualifier(c) \o <<".">>)
            /\ summary # <<>>
            /\ summary[Len(summary)] = "."

\* cyclomatic_complexity 10 is still moderate
C26_Witness ==
    /\ pc = "done"
    /\ func.complexity = Some(10)
    /\ QualifiersIn(summary) = <<"(moderate complexity)">>
    /\ func.return_annotation = Some(<<"F", "o", "o", ".">>)

====
